---------------------------- MODULE Spec2Model ----------------------------
(***************************************************************************)
(* Model of main.py: the resilient fetcher (fetch_url), the URL discoverer *)
(* (get_help_docs_urls), the whitespace postprocessing of processing_html, *)
(* the chunker (split_markdown) and the pipeline driver (scrapping_notion). *)
(*                                                                         *)
(* A Python str is modelled as a sequence of one-character strings.        *)
(***************************************************************************)
EXTENDS Integers, Sequences, FiniteSets, TLC

VARIABLES
    \* ---- split_markdown call ----
    markdown_text,      \* argument markdown_text
    max_chunk_size,     \* argument max_chunk_size
    sections,           \* returned list of chunks
    splitPc,            \* "idle" | "call" | "return"
    \* ---- processing_html postprocessing calls ----
    content,            \* text produced by the markdown converter
    once,               \* postprocessing applied once
    twice,              \* postprocessing applied to its own result
    postPc,             \* "idle" | "call" | "once" | "twice"
    \* ---- scrapping_notion run ----
    pc,                 \* position of the run in scrapping_notion
    discAttempt,        \* tenacity attempt_number of get_help_docs_urls
    discWarnings,       \* warnings logged by the retry of get_help_docs_urls
    indexGets,          \* GET attempts made for the index page so far
    urls,               \* list returned by get_help_docs_urls
    idx,                \* 1-based position of the for loop in urls
    chunks,             \* the list "chunks" of scrapping_notion
    errorLog,           \* URLs of the logger.error entries, in order
    results,            \* per processed document: did it succeed, and its _chunks
    saved,              \* the lists handed to save_list_to_file, in order
    \* ---- the fetch_url call in progress ----
    fetchTarget,        \* url argument ("" when no call is in progress)
    fetchAttempt,       \* tenacity attempt_number (0 when no call is in progress)
    fetchTrace,         \* outcome of every GET attempt of this call, in order
    fetchWarnings,      \* warnings logged by before_sleep during this call
    fetchWaited,        \* time units slept between attempts of this call
    fetchOutcome        \* how the call ended, NoOutcome while it is running

splitVars == <<markdown_text, max_chunk_size, sections, splitPc>>
postVars  == <<content, once, twice, postPc>>
fetchVars == <<fetchTarget, fetchAttempt, fetchTrace, fetchWarnings, fetchWaited,
               fetchOutcome>>
runVars   == <<pc, discAttempt, discWarnings, indexGets, urls, idx, chunks,
               errorLog, results, saved>>
vars      == <<splitVars, postVars, runVars, fetchVars>>

(***************************************************************************)
(* Bounds                                                                  *)
(***************************************************************************)
MaxLen      == 8    \* longest markdown_text given to split_markdown
MaxChunk    == 6    \* largest max_chunk_size given to split_markdown
MaxContent  == 5    \* longest text given to the postprocessing
MaxEntries  == 3    \* most entries (over all sections) of a helpArticleTree

(***************************************************************************)
(* Characters                                                              *)
(***************************************************************************)
NL    == "\n"
SP    == " "
HASH  == "#"
Whitespace == {SP, NL}              \* what \s and str.strip() treat as space
Chars      == {HASH, SP, NL, "x"}

RECURSIVE SeqsUpTo(_, _)
SeqsUpTo(S, n) ==
    IF n = 0 THEN {<<>>}
    ELSE LET shorter == SeqsUpTo(S, n - 1)
         IN  shorter \cup {Append(s, c) : s \in {t \in shorter : Len(t) = n - 1}, c \in S}

(***************************************************************************)
(* str.strip(): remove leading and trailing whitespace                     *)
(***************************************************************************)
strip(s) ==
    LET keep == {i \in 1..Len(s) : s[i] \notin Whitespace}
    IN  IF keep = {} THEN <<>>
        ELSE LET lo == CHOOSE i \in keep : \A j \in keep : i <= j
                 hi == CHOOSE i \in keep : \A j \in keep : j <= i
             IN  SubSeq(s, lo, hi)

(***************************************************************************)
(* re.split(r'(^#+\s.*?$)', text, flags=re.MULTILINE)                      *)
(***************************************************************************)
\* '^' under MULTILINE: start of the string or just after a newline
AtLineStart(s, p) == p = 1 \/ s[p - 1] = NL

\* '$' under MULTILINE: end of the string or just before a newline.
\* e is the index of the first character after the candidate match.
AtLineEnd(s, e) == e = Len(s) + 1 \/ s[e] = NL

\* first index >= p that does not hold a '#'  (the greedy '#+')
HashRunEnd(s, p) ==
    CHOOSE q \in p..(Len(s) + 1) :
        /\ \A j \in p..(q - 1) : s[j] = HASH
        /\ (q = Len(s) + 1 \/ s[q] # HASH)

\* end (exclusive) of the match that starts at p, or 0 if none starts there
MatchEnd(s, p) ==
    IF ~(p <= Len(s) /\ AtLineStart(s, p) /\ s[p] = HASH) THEN 0
    ELSE LET q == HashRunEnd(s, p)
         IN  IF q > Len(s) \/ s[q] \notin Whitespace THEN 0
             ELSE \* lazy '.*?' stops at the first position where '$' holds
                  CHOOSE e \in (q + 1)..(Len(s) + 1) :
                      /\ AtLineEnd(s, e)
                      /\ \A j \in (q + 1)..(e - 1) : ~AtLineEnd(s, j)

\* leftmost match start at or after position from, or 0 if there is none
NextMatch(s, from) ==
    LET starts == {p \in from..Len(s) : MatchEnd(s, p) # 0}
    IN  IF starts = {} THEN 0
        ELSE CHOOSE p \in starts : \A r \in starts : p <= r

RECURSIVE re_split_from(_, _)
re_split_from(s, from) ==
    LET p == NextMatch(s, from)
    IN  IF p = 0 THEN <<SubSeq(s, from, Len(s))>>
        ELSE LET e == MatchEnd(s, p)
             IN  <<SubSeq(s, from, p - 1), SubSeq(s, p, e - 1)>>
                     \o re_split_from(s, e)

re_split(s) == re_split_from(s, 1)

(***************************************************************************)
(* split_markdown                                                          *)
(***************************************************************************)
\* a variant whose limit check leaves out the length of the body
RECURSIVE combine_sections_without_body(_, _, _, _, _)
combine_sections_without_body(headlines, i, current_section, acc, max) ==
    IF i > Len(headlines)
    THEN IF current_section # <<>>
         THEN Append(acc, strip(current_section))
         ELSE acc
    ELSE LET headline == headlines[i]
             body     == IF i + 1 <= Len(headlines) THEN headlines[i + 1] ELSE <<>>
             exceeds  == /\ Len(current_section) # 0
                         /\ Len(current_section) + Len(headline) > max
         IN  combine_sections_without_body(headlines, i + 2,
                 (IF exceeds THEN <<>> ELSE current_section) \o headline \o body,
                 IF exceeds THEN Append(acc, strip(current_section)) ELSE acc,
                 max)

\* the loop "for i in range(1, len(headlines), 2)" and the final append;
\* i is the 1-based index of the headline (Python index i - 1)
RECURSIVE combine_sections(_, _, _, _, _)
combine_sections(headlines, i, current_section, acc, max) ==
    IF i > Len(headlines)
    THEN IF current_section # <<>>
         THEN Append(acc, strip(current_section))
         ELSE acc
    ELSE LET headline == headlines[i]
             body     == IF i + 1 <= Len(headlines) THEN headlines[i + 1] ELSE <<>>
             exceeds  == /\ Len(current_section) # 0
                         /\ Len(current_section) + Len(headline) + Len(body) > max
         IN  combine_sections(headlines, i + 2,
                 (IF exceeds THEN <<>> ELSE current_section) \o headline \o body,
                 IF exceeds THEN Append(acc, strip(current_section)) ELSE acc,
                 max)

split_markdown(text, max) == combine_sections(re_split(text), 2, <<>>, <<>>, max)

(***************************************************************************)
(* Whitespace postprocessing of processing_html                            *)
(***************************************************************************)
\* str.splitlines() for text whose only line boundary is "\n"
RECURSIVE splitlines(_)
splitlines(s) ==
    IF s = <<>> THEN <<>>
    ELSE LET nls == {i \in 1..Len(s) : s[i] = NL}
         IN  IF nls = {} THEN <<s>>
             ELSE LET k == CHOOSE i \in nls : \A j \in nls : i <= j
                  IN  <<SubSeq(s, 1, k - 1)>> \o splitlines(SubSeq(s, k + 1, Len(s)))

\* "\n".join(lines)
RECURSIVE join_lines(_)
join_lines(lines) ==
    IF lines = <<>> THEN <<>>
    ELSE IF Len(lines) = 1 THEN lines[1]
    ELSE lines[1] \o <<NL>> \o join_lines(Tail(lines))

strip_lines(s) ==
    LET lines == splitlines(s)
    IN  join_lines([i \in 1..Len(lines) |-> strip(lines[i])])

\* re.sub(r'\n{2,}', '\n\n', s): keep a newline unless two newlines precede it
collapse_newlines(s) ==
    LET kept == {i \in 1..Len(s) :
                    ~(s[i] = NL /\ i >= 3 /\ s[i - 1] = NL /\ s[i - 2] = NL)}
        nth(n) == CHOOSE i \in kept : Cardinality({j \in kept : j <= i}) = n
    IN  [n \in 1..Cardinality(kept) |-> s[nth(n)]]

postprocess(s) == collapse_newlines(strip_lines(s))


(***************************************************************************)
(* Program constants                                                       *)
(***************************************************************************)
StopAfterAttempt     == 3      \* fetch_url: stop_after_attempt(3)
WaitFixed            == 3      \* fetch_url: wait_fixed(3)
DiscStopAfterAttempt == 3      \* get_help_docs_urls: stop_after_attempt(3)
DefaultMaxChunkSize  == 750    \* split_markdown(markdown_text, max_chunk_size=750)

help_main == "https://www.notion.so/help/reference"
base_url  == "https://www.notion.so"

(***************************************************************************)
(* The environment: what a GET can answer                                  *)
(***************************************************************************)
NoUrl     == "None"                     \* entry without a "url" field
EntryUrls == {NoUrl, "/a", "/b"}
Statuses  == {200, 404}

\* helpArticleTree values: a list of sections, each with a list of entries,
\* of at most k sections and n entries in all
RECURSIVE TreesUpTo(_, _)
TreesUpTo(k, n) ==
    IF k = 0 THEN {<<>>}
    ELSE {<<>>} \cup
         UNION {{<<[entries |-> [i \in 1..Len(es) |-> [url |-> es[i]]]]>> \o t :
                    t \in TreesUpTo(k - 1, n - Len(es))} :
                es \in SeqsUpTo(EntryUrls, n)}

Trees == TreesUpTo(MaxEntries, MaxEntries)

\* text the markdown converter produces from the article of a document page
DocTexts == {<<HASH, SP, "a", NL, NL, SP, "x", SP, NL, NL, NL>>,
             <<"x", NL, HASH, SP, "b", SP, NL>>}

\* an HTML page: its __NEXT_DATA__ script, if any, and its article, if any
Page(script, tree, article, md) ==
    [script |-> script, tree |-> tree, article |-> article, md |-> md]
NoPage == Page("absent", <<>>, FALSE, <<>>)

IndexPages ==
    {Page(k, <<>>, FALSE, <<>>) : k \in {"absent", "malformed", "badshape"}}
        \cup {Page("json", t, FALSE, <<>>) : t \in Trees}
DocPages == {NoPage} \cup {Page("absent", <<>>, TRUE, m) : m \in DocTexts}

PagesAt(url) == IF url = help_main THEN IndexPages ELSE DocPages

\* outcome of one GET attempt, and of a whole fetch_url call.  An exception
\* is identified by the attempt that raised it (error, 0 when none); status
\* is 0 when the GET itself raised and no response exists.
Outcome(kind, status, text, error) ==
    [kind |-> kind, status |-> status, text |-> text, error |-> error]
NoOutcome == Outcome("running", 0, NoPage, 0)

(***************************************************************************)
(* fetch_url under @retry(stop_after_attempt(3), wait_fixed(3),            *)
(*                        before_sleep=retry_log_warning, reraise=True)    *)
(***************************************************************************)
\* line 29, "rep.raise_for_status": the attribute is read, the method is
\* not called, so no status makes the attempt raise
raises_for_status(status) == FALSE

\* what the body of fetch_url can do in one attempt: requests.get raises,
\* or line 29 raises on the status, or line 31 returns the text
AttemptRaises(attempt) ==
    {Outcome("raise", 0, NoPage, attempt)}
        \cup {Outcome("raise", st, NoPage, attempt) :
                  st \in {s \in Statuses : raises_for_status(s)}}
AttemptReturns(url) ==
    [kind : {"return"}, status : {s \in Statuses : ~raises_for_status(s)},
     text : PagesAt(url), error : {0}]

FetchRunning == fetchAttempt >= 1 /\ fetchOutcome.kind = "running"

\* calling fetch_url(url)
StartFetch(url) ==
    /\ fetchTarget' = url
    /\ fetchAttempt' = 1
    /\ fetchTrace' = <<>>
    /\ fetchWarnings' = 0
    /\ fetchWaited' = 0
    /\ fetchOutcome' = NoOutcome

\* the caller has taken the result of fetch_url
EndFetch ==
    /\ fetchTarget' = ""
    /\ fetchAttempt' = 0
    /\ fetchTrace' = <<>>
    /\ fetchWarnings' = 0
    /\ fetchWaited' = 0
    /\ fetchOutcome' = NoOutcome

CountGet == indexGets' = IF fetchTarget = help_main THEN indexGets + 1 ELSE indexGets

\* an attempt raises and another one is allowed: before_sleep logs a
\* warning, the call sleeps wait_fixed and tries again
FetchRetry ==
    /\ FetchRunning
    /\ fetchAttempt < StopAfterAttempt
    /\ \E o \in AttemptRaises(fetchAttempt) : fetchTrace' = Append(fetchTrace, o)
    /\ fetchWarnings' = fetchWarnings + 1
    /\ fetchWaited' = fetchWaited + WaitFixed
    /\ fetchAttempt' = fetchAttempt + 1
    /\ CountGet
    /\ UNCHANGED <<fetchTarget, fetchOutcome>>
    /\ UNCHANGED <<pc, discAttempt, discWarnings, urls, idx, chunks, errorLog,
                   results, saved>>
    /\ UNCHANGED <<splitVars, postVars>>

\* a variant that hands on the exception of the first attempt
FetchReraiseFirst ==
    /\ FetchRunning
    /\ fetchAttempt >= StopAfterAttempt
    /\ \E o \in AttemptRaises(fetchAttempt) :
           /\ fetchTrace' = Append(fetchTrace, o)
           /\ fetchOutcome' = fetchTrace[1]
    /\ CountGet
    /\ UNCHANGED <<fetchTarget, fetchAttempt, fetchWarnings, fetchWaited>>
    /\ UNCHANGED <<pc, discAttempt, discWarnings, urls, idx, chunks, errorLog,
                   results, saved>>
    /\ UNCHANGED <<splitVars, postVars>>

\* the last allowed attempt raises: reraise=True hands its exception on
FetchReraise ==
    /\ FetchRunning
    /\ fetchAttempt >= StopAfterAttempt
    /\ \E o \in AttemptRaises(fetchAttempt) :
           /\ fetchTrace' = Append(fetchTrace, o)
           /\ fetchOutcome' = o
    /\ CountGet
    /\ UNCHANGED <<fetchTarget, fetchAttempt, fetchWarnings, fetchWaited>>
    /\ UNCHANGED <<pc, discAttempt, discWarnings, urls, idx, chunks, errorLog,
                   results, saved>>
    /\ UNCHANGED <<splitVars, postVars>>

\* an attempt reaches "return rep.text"
FetchReturn ==
    /\ FetchRunning
    /\ fetchOutcome' \in AttemptReturns(fetchTarget)
    /\ fetchTrace' = Append(fetchTrace, fetchOutcome')
    /\ CountGet
    /\ UNCHANGED <<fetchTarget, fetchAttempt, fetchWarnings, fetchWaited>>
    /\ UNCHANGED <<pc, discAttempt, discWarnings, urls, idx, chunks, errorLog,
                   results, saved>>
    /\ UNCHANGED <<splitVars, postVars>>

(***************************************************************************)
(* get_help_docs_urls under its own @retry                                 *)
(***************************************************************************)
\* lines 81-97: the URLs of all entries that have one, section by section
RECURSIVE section_urls(_)
section_urls(entries) ==
    IF entries = <<>> THEN <<>>
    ELSE LET url == Head(entries).url
         IN  (IF url # NoUrl /\ url # "" THEN <<base_url \o url>> ELSE <<>>)
                 \o section_urls(Tail(entries))

RECURSIVE tree_urls(_)
tree_urls(l1_list) ==
    IF l1_list = <<>> THEN <<>>
    ELSE section_urls(Head(l1_list).entries) \o tree_urls(Tail(l1_list))

\* lines 78-84 succeed only on a page whose script holds the expected JSON
ParsesAsTree(page) == page.script = "json"

\* the body of get_help_docs_urls raised: fetch_url raised, or the page
\* has no script, or json.loads or the .get chain failed
DiscoveryRaises ==
    /\ pc = "discover"
    /\ \/ fetchOutcome.kind = "raise"
       \/ fetchOutcome.kind = "return" /\ ~ParsesAsTree(fetchOutcome.text)

\* line 144: scrapping_notion calls get_help_docs_urls
CallDiscovery ==
    /\ pc = "start"
    /\ pc' = "discover"
    /\ discAttempt' = 1
    /\ StartFetch(help_main)
    /\ UNCHANGED <<discWarnings, indexGets, urls, idx, chunks, errorLog, results,
                   saved>>
    /\ UNCHANGED <<splitVars, postVars>>

\* a variant that allows one attempt more
DiscoveryRetryOneMore ==
    /\ DiscoveryRaises
    /\ discAttempt <= DiscStopAfterAttempt
    /\ discAttempt' = discAttempt + 1
    /\ discWarnings' = discWarnings + 1
    /\ StartFetch(help_main)
    /\ UNCHANGED <<pc, indexGets, urls, idx, chunks, errorLog, results, saved>>
    /\ UNCHANGED <<splitVars, postVars>>

\* the body raised and another attempt is allowed: warn, sleep, run it again
DiscoveryRetry ==
    /\ DiscoveryRaises
    /\ discAttempt < DiscStopAfterAttempt
    /\ discAttempt' = discAttempt + 1
    /\ discWarnings' = discWarnings + 1
    /\ StartFetch(help_main)
    /\ UNCHANGED <<pc, indexGets, urls, idx, chunks, errorLog, results, saved>>
    /\ UNCHANGED <<splitVars, postVars>>

\* a variant that swallows the exception and goes on with no URL
DiscoverySwallow ==
    /\ DiscoveryRaises
    /\ discAttempt >= DiscStopAfterAttempt
    /\ pc' = "loop"
    /\ idx' = 1
    /\ EndFetch
    /\ UNCHANGED <<discAttempt, discWarnings, indexGets, urls, chunks,
                   errorLog, results, saved>>
    /\ UNCHANGED <<splitVars, postVars>>

\* the body raised on the last attempt: the exception leaves
\* get_help_docs_urls and, uncaught, scrapping_notion
DiscoveryReraise ==
    /\ DiscoveryRaises
    /\ discAttempt >= DiscStopAfterAttempt
    /\ pc' = "aborted"
    /\ EndFetch
    /\ UNCHANGED <<discAttempt, discWarnings, indexGets, urls, idx, chunks,
                   errorLog, results, saved>>
    /\ UNCHANGED <<splitVars, postVars>>

\* the body returned the list of URLs
DiscoveryReturn ==
    /\ pc = "discover"
    /\ fetchOutcome.kind = "return"
    /\ ParsesAsTree(fetchOutcome.text)
    /\ urls' = tree_urls(fetchOutcome.text.tree)
    /\ idx' = 1
    /\ pc' = "loop"
    /\ EndFetch
    /\ UNCHANGED <<discAttempt, discWarnings, indexGets, chunks, errorLog,
                   results, saved>>
    /\ UNCHANGED <<splitVars, postVars>>

(***************************************************************************)
(* scrapping_notion                                                        *)
(***************************************************************************)
\* a variant that puts the new items in front
extend_front(list, items) == items \o list

\* list.extend
extend(list, items) == list \o items

\* processing_html: the article's markdown, postprocessed
processing_html(html) == postprocess(html.md)

\* lines 147-148 for every page with an article, computed once:
\* split_markdown(processing_html(html)) with the default max_chunk_size
doc_chunks ==
    [html \in {p \in DocPages : p.article} |->
        split_markdown(processing_html(html), DefaultMaxChunkSize)]

\* line 145-147: the loop takes the next URL and read_url calls fetch_url
NextUrl ==
    /\ pc = "loop"
    /\ idx <= Len(urls)
    /\ pc' = "doc"
    /\ StartFetch(urls[idx])
    /\ UNCHANGED <<discAttempt, discWarnings, indexGets, urls, idx, chunks,
                   errorLog, results, saved>>
    /\ UNCHANGED <<splitVars, postVars>>

\* lines 147-150 and 154: the page was fetched and has an article
DocSucceeds ==
    /\ pc = "doc"
    /\ fetchOutcome.kind = "return"
    /\ fetchOutcome.text.article
    /\ LET _chunks == doc_chunks[fetchOutcome.text]
       IN  /\ chunks' = extend(chunks, _chunks)
           /\ results' = Append(results, [ok |-> TRUE, chunks |-> _chunks])
    /\ idx' = idx + 1
    /\ pc' = "loop"
    /\ EndFetch
    /\ UNCHANGED <<discAttempt, discWarnings, indexGets, urls, errorLog, saved>>
    /\ UNCHANGED <<splitVars, postVars>>

\* a variant without the except clause: the exception leaves the run
DocFailsUncaught ==
    /\ pc = "doc"
    /\ \/ fetchOutcome.kind = "raise"
       \/ fetchOutcome.kind = "return" /\ ~fetchOutcome.text.article
    /\ pc' = "aborted"
    /\ EndFetch
    /\ UNCHANGED <<discAttempt, discWarnings, indexGets, urls, idx, chunks,
                   errorLog, results, saved>>
    /\ UNCHANGED <<splitVars, postVars>>

\* lines 151-154: fetch_url raised, or the page has no article and the
\* converter raised; the except clause logs the URL
DocFails ==
    /\ pc = "doc"
    /\ \/ fetchOutcome.kind = "raise"
       \/ fetchOutcome.kind = "return" /\ ~fetchOutcome.text.article
    /\ errorLog' = Append(errorLog, urls[idx])
    /\ results' = Append(results, [ok |-> FALSE, chunks |-> <<>>])
    /\ idx' = idx + 1
    /\ pc' = "loop"
    /\ EndFetch
    /\ UNCHANGED <<discAttempt, discWarnings, indexGets, urls, chunks, saved>>
    /\ UNCHANGED <<splitVars, postVars>>

\* lines 156-157: the loop is over, save_list_to_file(chunks)
Save ==
    /\ pc = "loop"
    /\ idx > Len(urls)
    /\ saved' = Append(saved, chunks)
    /\ pc' = "done"
    /\ UNCHANGED <<discAttempt, discWarnings, indexGets, urls, idx, chunks,
                   errorLog, results>>
    /\ UNCHANGED fetchVars
    /\ UNCHANGED <<splitVars, postVars>>

(***************************************************************************)
(* Specification of one run of scrapping_notion                            *)
(***************************************************************************)
SplitIdle ==
    /\ markdown_text = <<>> /\ max_chunk_size = DefaultMaxChunkSize
    /\ sections = <<>> /\ splitPc = "idle"
PostIdle ==
    /\ content = <<>> /\ once = <<>> /\ twice = <<>> /\ postPc = "idle"
RunIdle ==
    /\ pc = "idle" /\ discAttempt = 0 /\ discWarnings = 0 /\ indexGets = 0
    /\ urls = <<>> /\ idx = 0 /\ chunks = <<>> /\ errorLog = <<>>
    /\ results = <<>> /\ saved = <<>>
    /\ fetchTarget = "" /\ fetchAttempt = 0 /\ fetchTrace = <<>>
    /\ fetchWarnings = 0 /\ fetchWaited = 0 /\ fetchOutcome = NoOutcome

Init ==
    /\ pc = "start" /\ discAttempt = 0 /\ discWarnings = 0 /\ indexGets = 0
    /\ urls = <<>> /\ idx = 0 /\ chunks = <<>> /\ errorLog = <<>>
    /\ results = <<>> /\ saved = <<>>
    /\ fetchTarget = "" /\ fetchAttempt = 0 /\ fetchTrace = <<>>
    /\ fetchWarnings = 0 /\ fetchWaited = 0 /\ fetchOutcome = NoOutcome
    /\ SplitIdle
    /\ PostIdle

Next ==
    \/ CallDiscovery
    \/ FetchRetry
    \/ FetchReraise
    \/ FetchReturn
    \/ DiscoveryRetry
    \/ DiscoveryReraise
    \/ DiscoveryReturn
    \/ NextUrl
    \/ DocSucceeds
    \/ DocFails
    \/ Save

Spec == Init /\ [][Next]_vars

\* the run is sequential and every GET attempt returns or raises
FairSpec == Spec /\ WF_vars(Next)

(***************************************************************************)
(* Specification of one split_markdown call                                *)
(***************************************************************************)
SplitInit ==
    /\ markdown_text \in SeqsUpTo(Chars, MaxLen)
    /\ max_chunk_size \in 0..MaxChunk
    /\ sections = <<>>
    /\ splitPc = "call"
    /\ PostIdle
    /\ RunIdle

SplitMarkdown ==
    /\ splitPc = "call"
    /\ sections' = split_markdown(markdown_text, max_chunk_size)
    /\ splitPc' = "return"
    /\ UNCHANGED <<markdown_text, max_chunk_size>>
    /\ UNCHANGED <<postVars, runVars, fetchVars>>

SplitNext == SplitMarkdown

SplitSpec == SplitInit /\ [][SplitNext]_vars

(***************************************************************************)
(* Specification of the postprocessing applied once and then again         *)
(***************************************************************************)
PostInit ==
    /\ content \in SeqsUpTo(Chars, MaxContent)
    /\ once = <<>>
    /\ twice = <<>>
    /\ postPc = "call"
    /\ SplitIdle
    /\ RunIdle

PostprocessOnce ==
    /\ postPc = "call"
    /\ once' = postprocess(content)
    /\ postPc' = "once"
    /\ UNCHANGED <<content, twice>>
    /\ UNCHANGED <<splitVars, runVars, fetchVars>>

PostprocessAgain ==
    /\ postPc = "once"
    /\ twice' = postprocess(once)
    /\ postPc' = "twice"
    /\ UNCHANGED <<content, once>>
    /\ UNCHANGED <<splitVars, runVars, fetchVars>>

PostNext == PostprocessOnce \/ PostprocessAgain

PostSpec == PostInit /\ [][PostNext]_vars

(***************************************************************************)
(* Helpers of the properties                                               *)
(***************************************************************************)
RECURSIVE Flatten(_)
Flatten(seqs) == IF seqs = <<>> THEN <<>> ELSE Head(seqs) \o Flatten(Tail(seqs))

\* the heading-sections of a text: every heading line with the body after it
HeadingSections(text) ==
    LET h == re_split(text)
    IN  [k \in 1..((Len(h) - 1) \div 2) |-> h[2 * k] \o h[2 * k + 1]]

\* text can be cut into Len(chunkList) consecutive pieces, the i-th of which
\* is chunkList[i] once its leading and trailing whitespace is removed
RECURSIVE StripsTo(_, _)
StripsTo(text, chunkList) ==
    IF chunkList = <<>> THEN strip(text) = <<>>
    ELSE \E k \in 0..Len(text) :
             /\ strip(SubSeq(text, 1, k)) = Head(chunkList)
             /\ StripsTo(SubSeq(text, k + 1, Len(text)), Tail(chunkList))

\* chunkList groups the heading-sections secs in order, whole sections only,
\* and a group of two or more sections is never longer than max
RECURSIVE Grouped(_, _, _)
Grouped(secs, chunkList, max) ==
    IF chunkList = <<>> THEN secs = <<>>
    ELSE \E g \in 1..Len(secs) :
             /\ strip(Flatten(SubSeq(secs, 1, g))) = Head(chunkList)
             /\ g >= 2 => Len(Head(chunkList)) <= max
             /\ Len(Head(chunkList)) > max => g = 1
             /\ Grouped(SubSeq(secs, g + 1, Len(secs)), Tail(chunkList), max)

\* the chunk lists of the successfully processed documents, concatenated
RECURSIVE ChunksOf(_)
ChunksOf(res) ==
    IF res = <<>> THEN <<>>
    ELSE (IF Head(res).ok THEN Head(res).chunks ELSE <<>>) \o ChunksOf(Tail(res))

\* the URLs of the failed documents, in order
RECURSIVE FailedUrls(_, _)
FailedUrls(res, us) ==
    IF res = <<>> THEN <<>>
    ELSE (IF Head(res).ok THEN <<>> ELSE <<Head(us)>>)
             \o FailedUrls(Tail(res), Tail(us))

(***************************************************************************)
(* C1: the chunks of split_markdown(text), in order, are text cut into     *)
(* consecutive pieces with only each piece's leading and trailing          *)
(* whitespace removed: no other character of text is lost or duplicated.   *)
(***************************************************************************)
LosslessPartition ==
    splitPc = "return" => StripsTo(markdown_text, sections)

(***************************************************************************)
(* C2: the chunks group the heading-sections of the text in order and      *)
(* whole; a chunk of two or more heading-sections is at most               *)
(* max_chunk_size long, and a longer chunk is exactly one heading-section. *)
(***************************************************************************)
BoundUnlessSingleSection ==
    splitPc = "return" =>
        Grouped(HeadingSections(markdown_text), sections, max_chunk_size)

\* two sections share the first chunk, the limit keeps the third one out
BoundUnlessSingleSectionWitness ==
    /\ splitPc = "return"
    /\ Len(HeadingSections(markdown_text)) = 3
    /\ Len(sections) = 2
    /\ Len(sections[1]) > Len(HeadingSections(markdown_text)[1])

(***************************************************************************)
(* C3: split_markdown returns at least one chunk for every input that is   *)
(* not empty or whitespace-only, and no chunk for an empty or              *)
(* whitespace-only input.                                                  *)
(***************************************************************************)
ChunkForNonEmptyInput ==
    splitPc = "return" =>
        /\ strip(markdown_text) # <<>> => Len(sections) >= 1
        /\ strip(markdown_text) = <<>> => sections = <<>>

(***************************************************************************)
(* C4: every processed document either failed, adding one error entry      *)
(* with its URL and no chunk, or succeeded, adding its chunks; the loop    *)
(* goes on to the next URL, and the chunk list is the concatenation of the *)
(* successful documents' chunk lists in URL order.                         *)
(***************************************************************************)
FailureIsolation ==
    /\ chunks = ChunksOf(results)
    /\ Len(results) <= Len(urls)
    /\ errorLog = FailedUrls(results, urls)
    /\ pc \in {"loop", "doc"} => Len(results) = idx - 1
    /\ pc = "done" => Len(results) = Len(urls) /\ saved = <<chunks>>

\* document 2 of 3 failed, documents 1 and 3 gave different chunks
FailureIsolationWitness ==
    /\ pc = "done"
    /\ Len(results) = 3
    /\ results[1].ok /\ ~results[2].ok /\ results[3].ok
    /\ Len(chunks) = 2
    /\ chunks[1] # chunks[2]
    /\ Len(errorLog) = 1

(***************************************************************************)
(* C5: a fetch_url call makes at most 3 GET attempts; it returns the text  *)
(* of the first attempt that does not raise; each failed attempt but the   *)
(* last is followed by one warning and a wait of 3; when the third attempt *)
(* raises, that attempt's exception is what the call raises.               *)
(***************************************************************************)
FetchRetryPolicy ==
    LET n == Len(fetchTrace)
        failedBefore(k) == \A i \in 1..k : fetchTrace[i].kind = "raise"
    IN  /\ n <= 3
        /\ fetchOutcome.kind = "running" =>
               /\ n = (IF fetchAttempt = 0 THEN 0 ELSE fetchAttempt - 1)
               /\ failedBefore(n)
               /\ fetchWarnings = n
               /\ fetchWaited = 3 * n
        /\ fetchOutcome.kind = "return" =>
               /\ n >= 1
               /\ fetchTrace[n] = fetchOutcome
               /\ failedBefore(n - 1)
               /\ fetchWarnings = n - 1
               /\ fetchWaited = 3 * (n - 1)
        /\ fetchOutcome.kind = "raise" =>
               /\ n = 3
               /\ failedBefore(3)
               /\ fetchOutcome = fetchTrace[3]
               /\ fetchOutcome.error = 3
               /\ fetchWarnings = 2
               /\ fetchWaited = 6

\* the third attempt failed too and its exception reached the caller
FetchRetryPolicyWitness ==
    /\ fetchOutcome.kind = "raise"
    /\ Len(fetchTrace) = 3
    /\ fetchWarnings = 2

(***************************************************************************)
(* C6: fetch_url never returns the body of a response whose status is not  *)
(* 2xx as a successful fetch.                                              *)
(***************************************************************************)
NonSuccessStatusNeverReturned ==
    fetchOutcome.kind = "return" => fetchOutcome.status \in 200..299

(***************************************************************************)
(* C7 as stated: the discovery procedure is executed exactly once in a     *)
(* run, and when it fails the run processes no document and saves nothing. *)
(***************************************************************************)
DiscoveryExecutedOnce ==
    /\ discAttempt <= 1
    /\ pc = "aborted" => results = <<>> /\ saved = <<>>

(***************************************************************************)
(* C7 amended: the discovery procedure is executed at most 3 times, again  *)
(* only after an execution failed (one warning each); when the third       *)
(* execution fails too the failure leaves the run, which has processed no  *)
(* document and saved nothing, and never does.                             *)
(***************************************************************************)
DiscoveryRetriedThenFatal ==
    /\ [](/\ discAttempt <= 3
          /\ discWarnings = (IF discAttempt = 0 THEN 0 ELSE discAttempt - 1)
          /\ pc = "aborted" =>
                 discAttempt = 3 /\ urls = <<>> /\ results = <<>> /\ saved = <<>>)
    /\ [][discAttempt' # discAttempt /\ discAttempt >= 1 => DiscoveryRaises]_vars
    /\ [][DiscoveryRaises /\ discAttempt >= 3 => pc' = "aborted"]_vars
    /\ [][pc = "aborted" => pc' = "aborted"]_vars

\* three executions failed and the run was abandoned
DiscoveryRetriedThenFatalWitness ==
    /\ pc = "aborted"
    /\ discAttempt = 3
    /\ discWarnings = 2
    /\ saved = <<>>

(***************************************************************************)
(* C8: once discovery has succeeded, save_list_to_file is eventually       *)
(* called, exactly once, after every URL has been processed, with all the  *)
(* chunks of the successfully processed documents.                         *)
(***************************************************************************)
SavedOnceAfterAllUrls ==
    /\ [](/\ Len(saved) <= 1
          /\ saved # <<>> =>
                 /\ Len(results) = Len(urls)
                 /\ idx = Len(urls) + 1
                 /\ saved[1] = ChunksOf(results))
    /\ (pc \in {"loop", "doc"} ~> Len(saved) = 1)

\* saved after one document failed and another succeeded
SavedOnceAfterAllUrlsWitness ==
    /\ pc = "done"
    /\ Len(saved) = 1
    /\ \E i \in 1..Len(results) : ~results[i].ok
    /\ \E i \in 1..Len(results) : results[i].ok /\ results[i].chunks # <<>>
    /\ saved[1] # <<>>

(***************************************************************************)
(* C9: applying the whitespace postprocessing twice gives the same text as *)
(* applying it once.                                                       *)
(***************************************************************************)
PostprocessIdempotent ==
    postPc = "twice" => twice = once

=============================================================================
